---- MODULE Spec2Model ----
(***************************************************************************)
(* Library management API: the checkout / return / waitlist handlers of    *)
(* books/views.py over the Book, Transaction and Waitlist tables of        *)
(* books/models.py.  Each request is served by an independent worker; the  *)
(* handlers are interleaved at the granularity of their database reads and *)
(* writes, with the row locks they take (select_for_update, and the row    *)
(* lock an UPDATE holds until its transaction commits).  Writes made       *)
(* inside db_transaction.atomic() become visible to other workers at the   *)
(* commit; until then they are kept in the worker's local state.           *)
(***************************************************************************)
EXTENDS Integers, Sequences, FiniteSets, TLC

\* ------------------------------------------------------------- bounds
NumWorkers     == 2   \* concurrent request handlers, one request each
NumMembers     == 2
NumTargetBooks == 2   \* books that requests name (book_id inputs)
MaxCopies      == 2   \* initial copies_available of a target book: 0..MaxCopies
MaxTicks       == 1   \* how often the clock is seen to advance

\* ------------------------------------------------- program constants
MAX_ACTIVE_TRANSACTIONS == 5
LOAN_DAYS               == 14   \* timedelta(days=14), in units of the clock

NULL == -1            \* a null DateTimeField / no row / no lock owner

Workers     == 1..NumWorkers
Members     == 1..NumMembers
TargetBooks == 1..NumTargetBooks
\* books already on loan when the model starts: member 1 holds one copy of each
ShelfBooks  == (NumTargetBooks + 1)..(NumTargetBooks + MAX_ACTIVE_TRANSACTIONS - 1)
Books       == TargetBooks \cup ShelfBooks
NoSuchBook  == NumTargetBooks + MAX_ACTIVE_TRANSACTIONS   \* an id of no Book row
InitNow     == LOAN_DAYS

VARIABLES
    copies_available,  \* Book.copies_available, committed value per book id (the
                       \* handlers alone keep it >= 0: the column check is not modelled)
    transactions,      \* Transaction table: sequence of rows, id = index
    waitlist,          \* Waitlist table: set of rows [id, user, book, created_at]
    nextWaitlistId,    \* Waitlist's auto-increment id
    is_active_member,  \* User.is_active_member per member
    outbox,            \* send_mail calls made so far: [kind, to, book, tx, delivered]
    now,               \* timezone.now()
    bookLock,          \* row lock owner per Book row (NULL = free)
    txLock,            \* row lock owner per Transaction row id (NULL = free)
    pc,                \* position of each worker in its handler
    req,               \* the request a worker serves: [kind, user, arg], and the number
                       \* of open loans its user had (loans) and of waitlist rows the
                       \* returned book had (waiting) when it arrived
    local,             \* handler locals: values read, and writes not yet committed
    resp,              \* the response a worker returned: [status, body]
    physical           \* per book: copies on the shelf plus copies on loan at the start

db   == <<copies_available, transactions, waitlist, nextWaitlistId>>
vars == <<copies_available, transactions, waitlist, nextWaitlistId, is_active_member,
          outbox, now, bookLock, txLock, pc, req, local, resp, physical>>

\* ------------------------------------------------------------ helpers
NoReq   == [kind |-> "none", user |-> 0, arg |-> 0, loans |-> 0, waiting |-> 0]
NoLocal == [copies |-> 0, t |-> NULL, id |-> 0, todo |-> <<>>]
NoResp  == [status |-> 0, body |-> "none"]

TxIds == 1..Len(transactions)

\* return_date__isnull=True
IsOpenMutant(tx) == tx.return_date # NULL
IsOpen(tx) == tx.return_date = NULL

\* Transaction.objects.filter(user=user, return_date__isnull=True)
OpenLoansOf(txs, u) == {i \in 1..Len(txs) : txs[i].user = u /\ IsOpen(txs[i])}

\* Transaction.objects.filter(user=user, book=book, return_date__isnull=True)
OpenLoansOn(txs, u, b) == {i \in OpenLoansOf(txs, u) : txs[i].book = b}

OpenLoansOfBook(txs, b) == {i \in 1..Len(txs) : txs[i].book = b /\ IsOpen(txs[i])}

\* Transaction.Meta.constraints: unique (user, book) among rows with return_date null
unique_active_transaction(txs) ==
    \A i, j \in 1..Len(txs) :
        (IsOpen(txs[i]) /\ IsOpen(txs[j]) /\ txs[i].user = txs[j].user
            /\ txs[i].book = txs[j].book) => i = j

Respond(w, status, body) ==
    /\ resp' = [resp EXCEPT ![w] = [status |-> status, body |-> body]]
    /\ pc' = [pc EXCEPT ![w] = "done"]
    /\ local' = [local EXCEPT ![w] = NoLocal]

Goto(w, label) == pc' = [pc EXCEPT ![w] = label]

\* --------------------------------------------------------------- Init
InitialLoan(u, b) ==
    [user |-> u, book |-> b, checkout_date |-> 0, due_date |-> LOAN_DAYS, return_date |-> NULL]

\* Member 1 holds every shelf book; the last member holds the first shelf book and
\* the last target book as well.
InitialTransactions ==
    [i \in 1..(MAX_ACTIVE_TRANSACTIONS - 1) |-> InitialLoan(1, NumTargetBooks + i)]
        \o <<InitialLoan(NumMembers, NumTargetBooks + 1), InitialLoan(NumMembers, NumTargetBooks)>>

\* a Waitlist row that may exist at the start: member 1 waits for the last target
\* book (a Return never deletes the row, so the book may have copies again)
InitialEntry == [id |-> 1, user |-> 1, book |-> NumTargetBooks, created_at |-> 0]

Init ==
    /\ copies_available \in [Books -> 0..MaxCopies]
    /\ \A b \in ShelfBooks : copies_available[b] = 0
    /\ transactions = InitialTransactions
    /\ waitlist \in {{}, {InitialEntry}}
    /\ nextWaitlistId = Cardinality(waitlist) + 1
    /\ is_active_member \in {[m \in Members |-> TRUE], [m \in Members |-> m = 1]}
    /\ outbox = <<>>
    /\ now = InitNow
    /\ bookLock = [b \in Books |-> NULL]
    /\ txLock = [i \in 1..Len(InitialTransactions) |-> NULL]
    /\ pc = [w \in Workers |-> "idle"]
    /\ req = [w \in Workers |-> NoReq]
    /\ local = [w \in Workers |-> NoLocal]
    /\ resp = [w \in Workers |-> NoResp]
    /\ physical = [b \in Books |->
                     copies_available[b] + Cardinality(OpenLoansOfBook(InitialTransactions, b))]

\* how far the clock is seen to advance at once: a moment, or past a loan period
TickSteps == {1, LOAN_DAYS + 1}

\* the number of advances made so far (fewer than LOAN_DAYS + 1 of them by 1)
TicksTaken ==
    ((now - InitNow) \div (LOAN_DAYS + 1)) + ((now - InitNow) % (LOAN_DAYS + 1))

\* the clock advances
Tick ==
    /\ TicksTaken < MaxTicks
    /\ \E d \in TickSteps : now' = now + d
    /\ UNCHANGED <<copies_available, transactions, waitlist, nextWaitlistId, is_active_member,
                   outbox, bookLock, txLock, pc, req, local, resp, physical>>

\* ----------------------------------------------- CheckoutAPIView.post
\* hasattr(user, 'is_active_member') and not user.is_active_member
InactiveMutant(u) == FALSE
Inactive(u) == ~is_active_member[u]

\* TransactionCreateSerializer.validate_book_id, then the is_active_member check
CheckoutValidate(w, u, book_id) ==
    /\ pc[w] = "idle"
    /\ req' = [req EXCEPT ![w] = [kind |-> "checkout", user |-> u, arg |-> book_id,
                                   loans |-> Cardinality(OpenLoansOf(transactions, u)),
                                   waiting |-> 0]]
    /\ IF book_id \notin Books
         THEN Respond(w, 400, "invalid_book_not_found")
       ELSE IF copies_available[book_id] <= 0
         THEN Respond(w, 400, "invalid_not_available")
       ELSE IF Inactive(u)
         THEN Respond(w, 403, "inactive")
       ELSE Goto(w, "co_count") /\ UNCHANGED <<local, resp>>
    /\ UNCHANGED <<db, is_active_member, outbox, now, bookLock, txLock, physical>>

\* active_count >= MAX_ACTIVE_TRANSACTIONS
LoanLimitReachedMutant(active_count) == active_count > MAX_ACTIVE_TRANSACTIONS
LoanLimitReached(active_count) == active_count >= MAX_ACTIVE_TRANSACTIONS

\* the loan limit check, outside the atomic block
CheckoutCount(w) ==
    /\ pc[w] = "co_count"
    /\ IF LoanLimitReached(Cardinality(OpenLoansOf(transactions, req[w].user)))
         THEN Respond(w, 400, "loan_limit")
         ELSE Goto(w, "co_lock") /\ UNCHANGED <<local, resp>>
    /\ UNCHANGED <<db, is_active_member, outbox, now, bookLock, txLock, req, physical>>

\* book.copies_available <= 0
NotAvailableMutant(copies) == copies < 0
NotAvailable(copies) == copies <= 0

\* select_for_update(): the row is read once no other worker holds its lock
SelectForUpdateReadyMutant(b) == TRUE
SelectForUpdateReady(b) == bookLock[b] = NULL

\* Book.objects.select_for_update().get(id=book_id) and the availability check
CheckoutLock(w) ==
    /\ pc[w] = "co_lock"
    /\ LET b == req[w].arg IN
        /\ SelectForUpdateReady(b)
        /\ IF NotAvailable(copies_available[b])
             THEN Respond(w, 400, "not_available") /\ UNCHANGED bookLock
             ELSE /\ bookLock' = [bookLock EXCEPT ![b] = w]
                  /\ local' = [local EXCEPT ![w].copies = copies_available[b]]
                  /\ Goto(w, "co_exists")
                  /\ UNCHANGED resp
    /\ UNCHANGED <<db, is_active_member, outbox, now, txLock, req, physical>>

\* the already-borrowed check, under the book's row lock
CheckoutExists(w) ==
    /\ pc[w] = "co_exists"
    /\ IF OpenLoansOn(transactions, req[w].user, req[w].arg) # {}
         THEN /\ Respond(w, 400, "already_borrowed")
              /\ bookLock' = [bookLock EXCEPT ![req[w].arg] = NULL]
         ELSE Goto(w, "co_save") /\ UNCHANGED <<local, resp, bookLock>>
    /\ UNCHANGED <<db, is_active_member, outbox, now, txLock, req, physical>>

\* Transaction.save: due_date = timezone.now() + timedelta(days=14)
DueDate(t) == t + LOAN_DAYS

\* Transaction.objects.create enters Transaction.save, which computes the due date
\* from its own reading of the clock (the checkout_date it sets from an earlier
\* reading is overwritten by auto_now_add at the insert)
CheckoutSave(w) ==
    /\ pc[w] = "co_save"
    /\ local' = [local EXCEPT ![w].t = DueDate(now)]
    /\ Goto(w, "co_insert")
    /\ UNCHANGED <<db, is_active_member, outbox, now, bookLock, txLock, req, resp, physical>>

\* the row Transaction.objects.create inserts: checkout_date is stamped by
\* auto_now_add at the insert
NewTransaction(u, b, due, t) ==
    [user |-> u, book |-> b, checkout_date |-> t, due_date |-> due, return_date |-> NULL]

\* book.copies_available -= 1
Decrement(copies) == copies - 1

\* the insert, book.save() and the commit of the atomic block
CheckoutCommit(w) ==
    /\ pc[w] = "co_insert"
    /\ LET b   == req[w].arg
           txs == Append(transactions, NewTransaction(req[w].user, b, local[w].t, now))
       IN IF unique_active_transaction(txs)
            THEN /\ transactions' = txs
                 /\ txLock' = [i \in 1..Len(txs) |-> IF i \in TxIds THEN txLock[i] ELSE NULL]
                 /\ copies_available' = [copies_available EXCEPT ![b] = Decrement(local[w].copies)]
                 /\ Respond(w, 201, "borrowed")
            ELSE \* IntegrityError: the atomic block rolls back
                 /\ Respond(w, 500, "integrity_error")
                 /\ UNCHANGED <<transactions, txLock, copies_available>>
    /\ bookLock' = [bookLock EXCEPT ![req[w].arg] = NULL]
    /\ UNCHANGED <<waitlist, nextWaitlistId, is_active_member, outbox, now, req, physical>>

\* ------------------------------------------------- ReturnAPIView.post
\* Waitlist.objects.filter(book=book)
WaitlistOf(b) == {e \in waitlist : e.book = b}

\* Transaction.objects.select_for_update().get(id=, user=, return_date__isnull=True)
ActiveTransaction(txs, tid, u) ==
    tid \in 1..Len(txs) /\ txs[tid].user = u /\ IsOpen(txs[tid])

\* the locked get (waits while another worker holds the row's lock, then looks
\* again), transaction.return_date = timezone.now() and transaction.save()
ReturnGet(w, u, tid) ==
    /\ pc[w] = "idle"
    /\ req' = [req EXCEPT ![w] = [kind |-> "return", user |-> u, arg |-> tid, loans |-> 0,
                                   waiting |-> IF tid \in TxIds
                                                 THEN Cardinality(WaitlistOf(transactions[tid].book))
                                                 ELSE 0]]
    /\ IF ~ActiveTransaction(transactions, tid, u)
         THEN Respond(w, 404, "transaction_not_found") /\ UNCHANGED txLock
         ELSE /\ txLock[tid] = NULL
              /\ txLock' = [txLock EXCEPT ![tid] = w]
              /\ local' = [local EXCEPT ![w].id = tid, ![w].t = now]
              /\ Goto(w, "rt_book")
              /\ UNCHANGED resp
    /\ UNCHANGED <<db, is_active_member, outbox, now, bookLock, physical>>

\* book = transaction.book: a plain read of the Book row, no lock
ReturnReadBook(w) ==
    /\ pc[w] = "rt_book"
    /\ local' = [local EXCEPT ![w].copies = copies_available[transactions[local[w].id].book]]
    /\ Goto(w, "rt_save")
    /\ UNCHANGED <<db, is_active_member, outbox, now, bookLock, txLock, req, resp, physical>>

\* book.copies_available += 1
IncrementMutant(copies) == copies
Increment(copies) == copies + 1

\* book.save(): the UPDATE waits for the row's lock and holds it until the commit
ReturnSaveBook(w) ==
    /\ pc[w] = "rt_save"
    /\ LET b == transactions[local[w].id].book IN
        /\ bookLock[b] = NULL
        /\ bookLock' = [bookLock EXCEPT ![b] = w]
    /\ local' = [local EXCEPT ![w].copies = Increment(local[w].copies)]
    /\ Goto(w, "rt_exists")
    /\ UNCHANGED <<db, is_active_member, outbox, now, txLock, req, resp, physical>>

\* waitlist_entries.exists()
ReturnWaitlistExists(w) ==
    /\ pc[w] = "rt_exists"
    /\ IF WaitlistOf(transactions[local[w].id].book) # {}
         THEN Goto(w, "rt_first")
         ELSE Goto(w, "rt_commit")
    /\ UNCHANGED <<db, is_active_member, outbox, now, bookLock, txLock, req, local, resp, physical>>

\* order_by('created_at').first(): a row of the least created_at
FirstEntriesMutant(entries) == {e \in entries : \A f \in entries : e.created_at >= f.created_at}
FirstEntries(entries) == {e \in entries : \A f \in entries : e.created_at <= f.created_at}

\* the same without fail_silently=True and the try/except: a failed send raises,
\* the atomic block rolls back and the request ends with a server error
ReturnNotifyMutant(w) ==
    /\ pc[w] = "rt_first"
    /\ LET tid == local[w].id
           b   == transactions[tid].book
       IN IF WaitlistOf(b) = {}
            THEN Goto(w, "rt_commit") /\ UNCHANGED <<outbox, bookLock, txLock, local, resp>>
            ELSE \E e \in FirstEntries(WaitlistOf(b)), delivered \in BOOLEAN :
                   /\ outbox' = Append(outbox, [kind |-> "available", to |-> e.user, book |-> b,
                                               tx |-> 0, delivered |-> delivered])
                   /\ IF delivered
                        THEN Goto(w, "rt_commit") /\ UNCHANGED <<bookLock, txLock, local, resp>>
                        ELSE /\ txLock' = [txLock EXCEPT ![tid] = NULL]
                             /\ bookLock' = [bookLock EXCEPT ![b] = NULL]
                             /\ Respond(w, 500, "mail_error")
    /\ UNCHANGED <<db, is_active_member, now, req, physical>>

\* waitlist_entries.first() and send_mail(..., fail_silently=True); with no row
\* left, next_entry is None and the exception is caught
ReturnNotify(w) ==
    /\ pc[w] = "rt_first"
    /\ LET b == transactions[local[w].id].book IN
         IF WaitlistOf(b) = {}
           THEN UNCHANGED outbox
           ELSE \E e \in FirstEntries(WaitlistOf(b)), delivered \in BOOLEAN :
                  outbox' = Append(outbox, [kind |-> "available", to |-> e.user, book |-> b,
                                            tx |-> 0, delivered |-> delivered])
    /\ Goto(w, "rt_commit")
    /\ UNCHANGED <<db, is_active_member, now, bookLock, txLock, req, local, resp, physical>>

\* the atomic block commits: both writes become visible, both locks are released
ReturnCommit(w) ==
    /\ pc[w] = "rt_commit"
    /\ LET tid == local[w].id
           b   == transactions[tid].book
       IN /\ transactions' = [transactions EXCEPT ![tid].return_date = local[w].t]
          /\ copies_available' = [copies_available EXCEPT ![b] = local[w].copies]
          /\ txLock' = [txLock EXCEPT ![tid] = NULL]
          /\ bookLock' = [bookLock EXCEPT ![b] = NULL]
    /\ Respond(w, 200, "returned")
    /\ UNCHANGED <<waitlist, nextWaitlistId, is_active_member, outbox, now, req, physical>>

\* ------------------------------------------- JoinWaitlistAPIView.post
\* WaitlistCreateSerializer.validate_book_id and get_object_or_404(Book, id=book_id)
JoinRead(w, u, book_id) ==
    /\ pc[w] = "idle"
    /\ req' = [req EXCEPT ![w] = [kind |-> "join", user |-> u, arg |-> book_id, loans |-> 0,
                                   waiting |-> 0]]
    /\ IF book_id \notin Books
         THEN Respond(w, 400, "invalid_book_not_found")
         ELSE /\ local' = [local EXCEPT ![w].copies = copies_available[book_id]]
              /\ Goto(w, "jw_exists")
              /\ UNCHANGED resp
    /\ UNCHANGED <<db, is_active_member, outbox, now, bookLock, txLock, physical>>

\* Waitlist.objects.filter(user=request.user, book=book).exists()
OnWaitlistMutant(u, b) == \E e \in waitlist : e.user = u /\ e.book # b
OnWaitlist(u, b) == \E e \in waitlist : e.user = u /\ e.book = b

\* book.copies_available > 0
BookAvailableMutant(copies) == copies > 1
BookAvailable(copies) == copies > 0

\* the already-on-the-waitlist check, then the availability check on the Book
\* object read before
JoinExists(w) ==
    /\ pc[w] = "jw_exists"
    /\ IF OnWaitlist(req[w].user, req[w].arg)
         THEN Respond(w, 400, "already_waitlisted")
       ELSE IF BookAvailable(local[w].copies)
         THEN Respond(w, 200, "warning_available")
       ELSE Goto(w, "jw_create") /\ UNCHANGED <<local, resp>>
    /\ UNCHANGED <<db, is_active_member, outbox, now, bookLock, txLock, req, physical>>

\* Waitlist.Meta.unique_together: no second row for (user, book)
unique_together(rows) ==
    \A e, f \in rows : (e.user = f.user /\ e.book = f.book) => e.id = f.id

\* Waitlist.objects.create(user=, book=): unique_together raises IntegrityError
JoinCreate(w) ==
    /\ pc[w] = "jw_create"
    /\ IF ~unique_together(waitlist \cup {[id |-> nextWaitlistId, user |-> req[w].user,
                                            book |-> req[w].arg, created_at |-> now]})
         THEN Respond(w, 500, "integrity_error") /\ UNCHANGED <<waitlist, nextWaitlistId>>
         ELSE /\ waitlist' = waitlist \cup {[id |-> nextWaitlistId, user |-> req[w].user,
                                             book |-> req[w].arg, created_at |-> now]}
              /\ nextWaitlistId' = nextWaitlistId + 1
              /\ Respond(w, 201, "waitlisted")
    /\ UNCHANGED <<copies_available, transactions, is_active_member, outbox, now, bookLock,
                   txLock, req, physical>>

\* --------------------------------------- CancelWaitlistAPIView.delete
\* get_object_or_404(Waitlist, id=waitlist_id, user=request.user)
OwnEntryMutant(wid, u) == \E e \in waitlist : e.id = wid
OwnEntry(wid, u) == \E e \in waitlist : e.id = wid /\ e.user = u

CancelGet(w, u, wid) ==
    /\ pc[w] = "idle"
    /\ req' = [req EXCEPT ![w] = [kind |-> "cancel", user |-> u, arg |-> wid, loans |-> 0,
                                   waiting |-> 0]]
    /\ IF ~OwnEntry(wid, u)
         THEN Respond(w, 404, "not_found")
         ELSE /\ local' = [local EXCEPT ![w].id = wid]
              /\ Goto(w, "cw_delete")
              /\ UNCHANGED resp
    /\ UNCHANGED <<db, is_active_member, outbox, now, bookLock, txLock, physical>>

\* waitlist.delete()
CancelDelete(w) ==
    /\ pc[w] = "cw_delete"
    /\ waitlist' = {e \in waitlist : e.id # local[w].id}
    /\ Respond(w, 200, "removed")
    /\ UNCHANGED <<copies_available, transactions, nextWaitlistId, is_active_member, outbox,
                   now, bookLock, txLock, req, physical>>

\* Transaction.status
status(tx, t) ==
    IF tx.return_date # NULL THEN "returned"
    ELSE IF tx.due_date # NULL /\ tx.due_date < t THEN "overdue"
    ELSE "active"

\* ---- send_overdue_notifications: Command.handle ----

\* Transaction.objects.filter(return_date__isnull=True, due_date__lt=now)
Overdue(tx, t) == IsOpen(tx) /\ tx.due_date < t

\* the rows of the queryset, in the order of their ids
overdue_transactions(txs, t) ==
    SelectSeq([i \in 1..Len(txs) |-> i], LAMBDA i : Overdue(txs[i], t))

\* now = timezone.now(); the queryset is evaluated when the loop starts
ScanStart(w) ==
    /\ pc[w] = "idle"
    /\ req' = [req EXCEPT ![w] = [kind |-> "scan", user |-> 0, arg |-> now,
                                  loans |-> Len(overdue_transactions(transactions, now)),
                                  waiting |-> 0]]
    /\ local' = [local EXCEPT ![w].todo = overdue_transactions(transactions, now)]
    /\ Goto(w, "scan_send")
    /\ UNCHANGED <<db, is_active_member, outbox, now, bookLock, txLock, resp, physical>>

\* one pass of the loop: send_mail(..., fail_silently=False) for the next row; a
\* failed send raises and ends the command; after the last row the command ends
ScanSend(w) ==
    /\ pc[w] = "scan_send"
    /\ IF local[w].todo = <<>>
       THEN /\ Respond(w, 0, "scan_done")
            /\ UNCHANGED outbox
       ELSE LET tid == Head(local[w].todo) IN
            \E delivered \in BOOLEAN :
                /\ outbox' = Append(outbox, [kind |-> "overdue", to |-> transactions[tid].user,
                                            book |-> transactions[tid].book, tx |-> tid,
                                            delivered |-> delivered])
                /\ IF delivered
                   THEN /\ local' = [local EXCEPT ![w].todo = Tail(@)]
                        /\ UNCHANGED <<pc, resp>>
                   ELSE Respond(w, 1, "scan_error")
    /\ UNCHANGED <<db, is_active_member, now, bookLock, txLock, req, physical>>

Next ==
    \/ Tick
    \/ \E w \in Workers, u \in Members, b \in TargetBooks \cup {NoSuchBook} : CheckoutValidate(w, u, b)
    \/ \E w \in Workers : CheckoutCount(w)
    \/ \E w \in Workers : CheckoutLock(w)
    \/ \E w \in Workers : CheckoutExists(w)
    \/ \E w \in Workers : CheckoutSave(w)
    \/ \E w \in Workers : CheckoutCommit(w)
    \/ \E w \in Workers, u \in Members, tid \in 1..(Len(transactions) + 1) : ReturnGet(w, u, tid)
    \/ \E w \in Workers : ReturnReadBook(w)
    \/ \E w \in Workers : ReturnSaveBook(w)
    \/ \E w \in Workers : ReturnWaitlistExists(w)
    \/ \E w \in Workers : ReturnNotify(w)
    \/ \E w \in Workers : ReturnCommit(w)
    \/ \E w \in Workers, u \in Members, b \in TargetBooks \cup {NoSuchBook} : JoinRead(w, u, b)
    \/ \E w \in Workers : JoinExists(w)
    \/ \E w \in Workers : JoinCreate(w)
    \/ \E w \in Workers, u \in Members, wid \in 1..nextWaitlistId : CancelGet(w, u, wid)
    \/ \E w \in Workers : CancelDelete(w)
    \/ \E w \in Workers : ScanStart(w)
    \/ \E w \in Workers : ScanSend(w)

Spec == Init /\ [][Next]_vars

\* ============================================================ claims
OnLoan(i) == transactions[i].return_date = NULL
LoansOfMember(m) == {i \in TxIds : transactions[i].user = m /\ OnLoan(i)}
LoansOfBook(b) == {i \in TxIds : transactions[i].book = b /\ OnLoan(i)}
LoansOfPair(m, b) == {i \in TxIds : transactions[i].user = m /\ transactions[i].book = b /\ OnLoan(i)}
InitialLoansOfPair(m, b) ==
    {i \in 1..Len(InitialTransactions) :
        InitialTransactions[i].user = m /\ InitialTransactions[i].book = b}
InitialCopies(b) ==
    physical[b] - Cardinality({i \in 1..Len(InitialTransactions) : InitialTransactions[i].book = b})
Finished(w, kind) == pc[w] = "done" /\ req[w].kind = kind
Rejected(r, body) == r.status = 400 /\ r.body = body

\* C1: in every reachable state every Book's copies_available is >= 0, also when two
\* Checkouts of the same book run concurrently.
C1_CopiesNeverNegative == \A b \in Books : copies_available[b] >= 0

\* two Checkouts of one book overlapped: one took the last copy, the other was
\* rejected under the row lock
C1_Witness ==
    \E w1, w2 \in Workers :
        /\ w1 # w2 /\ Finished(w1, "checkout") /\ Finished(w2, "checkout")
        /\ req[w1].arg = req[w2].arg
        /\ resp[w1].status = 201
        /\ Rejected(resp[w2], "not_available")
        /\ copies_available[req[w1].arg] = 0

\* C2: for every book, copies_available plus the number of open loans on it equals
\* the number of copies the library holds, in every reachable state.
C2_Conservation ==
    \A b \in Books : copies_available[b] + Cardinality(LoansOfBook(b)) = physical[b]

\* C3: no member ever has more than MAX_ACTIVE_TRANSACTIONS open loans.
C3_LoanLimit ==
    \A m \in Members : Cardinality(LoansOfMember(m)) <= MAX_ACTIVE_TRANSACTIONS

\* the scenario of C4: the only two requests are Checkouts of one book with one
\* copy, by two active members below the limit who do not hold it
C4_Scenario(w1, w2) ==
    /\ w1 # w2 /\ Finished(w1, "checkout") /\ Finished(w2, "checkout")
    /\ \A w \in Workers \ {w1, w2} : pc[w] = "idle"
    /\ req[w1].arg = req[w2].arg /\ req[w1].arg \in Books
    /\ req[w1].user # req[w2].user
    /\ InitialCopies(req[w1].arg) = 1
    /\ \A w \in {w1, w2} :
        /\ is_active_member[req[w].user]
        /\ req[w].loans < MAX_ACTIVE_TRANSACTIONS
        /\ InitialLoansOfPair(req[w].user, req[w].arg) = {}

\* C4: two concurrent Checkouts of a book with one copy, by two members: exactly one
\* succeeds (one new open loan, copies_available = 0), the other is rejected as not
\* available and creates no loan.
C4_ExactlyOneSucceeds ==
    \A w1, w2 \in Workers :
        C4_Scenario(w1, w2) =>
            /\ \E w \in {w1, w2} : \E v \in {w1, w2} \ {w} :
                /\ resp[w].status = 201
                /\ Rejected(resp[v], "not_available") \/ Rejected(resp[v], "invalid_not_available")
                /\ Len(transactions) = Len(InitialTransactions) + 1
                /\ transactions[Len(transactions)].user = req[w].user
                /\ transactions[Len(transactions)].book = req[w].arg
                /\ OnLoan(Len(transactions))
            /\ copies_available[req[w1].arg] = 0

\* the two Checkouts overlapped: the loser passed validation and was rejected under
\* the row lock
C4_Witness ==
    \E w1, w2 \in Workers :
        C4_Scenario(w1, w2) /\ resp[w1].status = 201 /\ Rejected(resp[w2], "not_available")

MailsFor(box, b) == {i \in 1..Len(box) : box[i].kind = "available" /\ box[i].book = b}

\* C5: a Return on a book with copies_available = 0 and exactly one waitlist row
\* leaves copies_available = 1, removes the row and sends exactly one notification,
\* to that row's member.
C5_ReturnPromotes ==
    [][\A w \in Workers :
        (pc[w] = "rt_commit" /\ pc'[w] = "done") =>
            LET b == transactions[local[w].id].book IN
                (/\ copies_available[b] = 0
                 /\ req[w].waiting = 1
                 /\ Cardinality(WaitlistOf(b)) = 1)
                => /\ copies_available'[b] = 1
                   /\ {e \in waitlist' : e.book = b} = {}
                   /\ Cardinality(MailsFor(outbox', b)) = 1
                   /\ \A i \in MailsFor(outbox', b) : \A e \in WaitlistOf(b) : outbox'[i].to = e.user
      ]_vars

\* C6: for every (member, book) pair there is at most one open loan, in every
\* reachable state.
C6_AtMostOneOpenLoan ==
    \A m \in Members, b \in Books : Cardinality(LoansOfPair(m, b)) <= 1

\* one member's two Checkouts of one book overlapped: the second was rejected
C6_Witness ==
    \E w1, w2 \in Workers :
        /\ w1 # w2 /\ Finished(w1, "checkout") /\ Finished(w2, "checkout")
        /\ req[w1].arg = req[w2].arg /\ req[w1].user = req[w2].user
        /\ req[w2].loans = req[w1].loans
        /\ resp[w1].status = 201
        /\ Rejected(resp[w2], "already_borrowed")

\* C7: a successful Checkout decrements the book's copies_available by exactly 1,
\* creates exactly one new open loan for (member, book), due LOAN_DAYS after its
\* checkout_date, and leaves every other book, loan and waitlist row unchanged.
C7_CheckoutEffect ==
    [][\A w \in Workers :
        (pc[w] = "co_insert" /\ resp'[w].status = 201) =>
            LET b == req[w].arg
                n == Len(transactions)
            IN /\ copies_available[b] > 0
               /\ copies_available' = [copies_available EXCEPT ![b] = copies_available[b] - 1]
               /\ Len(transactions') = n + 1
               /\ \A i \in 1..n : transactions'[i] = transactions[i]
               /\ transactions'[n + 1].user = req[w].user
               /\ transactions'[n + 1].book = b
               /\ transactions'[n + 1].return_date = NULL
               /\ transactions'[n + 1].due_date = transactions'[n + 1].checkout_date + LOAN_DAYS
               /\ waitlist' = waitlist
      ]_vars

\* a step of worker w's handler for a request of this kind
StepOf(w, kind) == pc'[w] # pc[w] /\ req'[w].kind = kind

C9_FailedCheckoutChangesNothing ==
    [][\A w \in Workers :
        StepOf(w, "checkout") =>
            /\ resp'[w].status # 201
                => UNCHANGED <<copies_available, transactions, waitlist, nextWaitlistId>>
            /\ pc'[w] = "done" => \A b \in Books : bookLock'[b] # w
            /\ ~is_active_member[req'[w].user]
                => (transactions' = transactions /\ resp'[w].status # 201)
      ]_vars

\* a Checkout of a book that has copies was refused to an inactive member
C9_Witness ==
    \E w \in Workers :
        /\ Finished(w, "checkout") /\ resp[w].status = 403 /\ resp[w].body = "inactive"
        /\ ~is_active_member[req[w].user]
        /\ copies_available[req[w].arg] > 0

\* C10: a Return succeeds only for a transaction that exists, belongs to the
\* requester and is open, and otherwise fails with 404 and changes nothing; so a
\* loan is returned at most once, never by another member, and each successful
\* Return raises the book's copies_available by exactly 1.
C10_ReturnOnlyOwnOpenLoan ==
    [][\A w \in Workers :
        StepOf(w, "return") =>
            LET tid == req'[w].arg IN
            /\ resp'[w].status = 404
                => /\ UNCHANGED <<copies_available, transactions, waitlist, nextWaitlistId>>
                   /\ ~(tid \in TxIds /\ transactions[tid].user = req'[w].user /\ OnLoan(tid))
            /\ resp'[w].status = 200
                => /\ tid \in TxIds
                   /\ transactions[tid].user = req[w].user
                   /\ OnLoan(tid)
                   /\ transactions'[tid].return_date # NULL
                   /\ \A i \in TxIds \ {tid} : transactions'[i] = transactions[i]
                   /\ copies_available' =
                        [copies_available EXCEPT ![transactions[tid].book] = @ + 1]
            /\ resp'[w].status \in {0, 200, 404}
      ]_vars

\* the scenario of C11: the only two requests are a successful Checkout and then a
\* successful Return of the loan it created, by the same member
C11_Scenario(w1, w2) ==
    /\ w1 # w2 /\ Finished(w1, "checkout") /\ Finished(w2, "return")
    /\ \A w \in Workers \ {w1, w2} : pc[w] = "idle"
    /\ resp[w1].status = 201 /\ resp[w2].status = 200
    /\ req[w2].user = req[w1].user
    /\ req[w2].arg = Len(InitialTransactions) + 1

\* C11: after a successful Checkout of a book with c > 0 copies and a Return of the
\* created loan by the same member, the book has c copies again, and the loan has a
\* return_date that is not null and not before its checkout_date, and status
\* "returned", whether or not its due_date has passed.
C11_RoundTrip ==
    \A w1, w2 \in Workers :
        C11_Scenario(w1, w2) =>
            LET b  == req[w1].arg
                tx == transactions[req[w2].arg]
            IN /\ InitialCopies(b) > 0
               /\ copies_available[b] = InitialCopies(b)
               /\ tx.user = req[w1].user /\ tx.book = b
               /\ tx.return_date # NULL
               /\ tx.return_date >= tx.checkout_date
               /\ status(tx, now) = "returned"

\* the round trip ended after the loan's due_date
C11_Witness ==
    \E w1, w2 \in Workers :
        /\ C11_Scenario(w1, w2)
        /\ transactions[req[w2].arg].due_date < transactions[req[w2].arg].return_date
        /\ copies_available[req[w1].arg] = InitialCopies(req[w1].arg)

EntriesOfPair(rows, m, b) == {e \in rows : e.user = m /\ e.book = b}
Enrolled(m, b) == EntriesOfPair(waitlist, m, b) # {}

\* C12: in every reachable state there is at most one waitlist row for every
\* (member, book) pair, under every interleaving of JoinWaitlist, CancelWaitlist and
\* Return; a JoinWaitlist whose already-on-the-waitlist check finds the member
\* enrolled for the book ends with the already-waitlisted error (HTTP 400), and no
\* JoinWaitlist step adds a row for a pair that has one.
C12_OneEntryPerPair ==
    /\ [](\A m \in Members, b \in Books : Cardinality(EntriesOfPair(waitlist, m, b)) <= 1)
    /\ [][\A w \in Workers :
            (StepOf(w, "join") /\ req[w].kind = "join" /\ Enrolled(req[w].user, req[w].arg))
            => /\ UNCHANGED <<copies_available, transactions, waitlist, nextWaitlistId>>
               /\ pc'[w] = "done" /\ resp'[w].status # 201
               /\ pc[w] = "jw_exists" => Rejected(resp'[w], "already_waitlisted")
         ]_vars

\* two JoinWaitlist calls of one member for one book overlapped: both passed the
\* check, one created the row and the other was stopped by the unique constraint
C12_Witness ==
    \E w1, w2 \in Workers :
        /\ w1 # w2 /\ Finished(w1, "join") /\ Finished(w2, "join")
        /\ req[w1].user = req[w2].user /\ req[w1].arg = req[w2].arg
        /\ resp[w1].status = 201
        /\ resp[w2].body = "integrity_error"
        /\ Cardinality(EntriesOfPair(waitlist, req[w1].user, req[w1].arg)) = 1

\* the waitlist rows that were there at the start, and those created since
EarlierEntries == {e \in waitlist : e.created_at < InitNow}
NewEntries == waitlist \ EarlierEntries

\* the scenario of C13: the only request is a JoinWaitlist for an existing book by
\* a member who has no row for it
C13_Scenario(w) ==
    /\ Finished(w, "join") /\ req[w].arg \in Books
    /\ \A v \in Workers \ {w} : pc[v] = "idle"
    /\ EntriesOfPair(EarlierEntries, req[w].user, req[w].arg) = {}

\* C13: a JoinWaitlist by a member not enrolled for the book, when the book has
\* copies_available > 0, returns the advisory (HTTP 200 with a warning), creates no
\* waitlist row and changes nothing else; when the book has copies_available = 0 it
\* creates exactly one waitlist row, for (member, book).
C13_JoinAdvisoryOrEntry ==
    \A w \in Workers :
        C13_Scenario(w) =>
            /\ \A b \in Books : copies_available[b] = InitialCopies(b)
            /\ transactions = InitialTransactions
            /\ outbox = <<>>
            /\ IF copies_available[req[w].arg] > 0
                 THEN /\ resp[w] = [status |-> 200, body |-> "warning_available"]
                      /\ NewEntries = {}
                      /\ nextWaitlistId = Cardinality(waitlist) + 1
                 ELSE /\ resp[w] = [status |-> 201, body |-> "waitlisted"]
                      /\ Cardinality(NewEntries) = 1
                      /\ \A e \in NewEntries : e.user = req[w].user /\ e.book = req[w].arg

\* a member asked to wait for a book that has a copy, while another member has a
\* row for it: the advisory came back and that row is still the only one
C13_Witness ==
    \E w \in Workers :
        /\ C13_Scenario(w)
        /\ copies_available[req[w].arg] = 1
        /\ resp[w].body = "warning_available"
        /\ EarlierEntries # {} /\ waitlist = EarlierEntries

EntriesOfBook(rows, b) == {e \in rows : e.book = b}

\* C14: when a Return finds the waitlist of its book non-empty, the member it
\* notifies has a row for that book whose created_at is the least of all rows for
\* the book at that moment; no "book available" mail goes to a member while another
\* member's earlier row for the same book exists.
C14_EarliestIsNotified ==
    [][/\ \A w \in Workers :
            (pc[w] = "rt_first" /\ pc'[w] # "rt_first"
                /\ EntriesOfBook(waitlist, transactions[local[w].id].book) # {})
            => /\ Len(outbox') = Len(outbox) + 1
               /\ outbox'[Len(outbox')].kind = "available"
               /\ outbox'[Len(outbox')].book = transactions[local[w].id].book
       /\ (Len(outbox') > Len(outbox) /\ outbox'[Len(outbox')].kind = "available")
            => LET mail == outbox'[Len(outbox')]
                   rows == EntriesOfBook(waitlist, mail.book)
               IN \E e \in rows :
                    /\ e.user = mail.to
                    /\ \A f \in rows : e.created_at <= f.created_at
      ]_vars

\* a Return that found two rows for its book, of different created_at, has just
\* notified the member of the earlier one
C14_Witness ==
    \E w \in Workers :
        /\ req[w].kind = "return" /\ pc[w] = "rt_commit"
        /\ req[w].waiting = 2
        /\ outbox # <<>>
        /\ LET mail == outbox[Len(outbox)]
               rows == EntriesOfBook(waitlist, mail.book)
           IN /\ mail.kind = "available"
              /\ mail.book = transactions[req[w].arg].book
              /\ Cardinality(rows) = 2
              /\ \E e, f \in rows :
                    e.created_at < f.created_at /\ mail.to = e.user /\ mail.to # f.user

\* C15: CancelWaitlist(member, id) deletes the row if and only if a row of that id
\* exists and belongs to the member; otherwise it answers not-found (HTTP 404) and
\* removes nothing. No step removes a waitlist row other than a CancelWaitlist of
\* the row's own member for that row's id.
C15_CancelOnlyOwnEntry ==
    [][/\ \A w \in Workers :
            /\ (StepOf(w, "cancel") /\ pc[w] = "idle")
               => IF \E e \in waitlist : e.id = req'[w].arg /\ e.user = req'[w].user
                    THEN pc'[w] = "cw_delete" /\ waitlist' = waitlist
                    ELSE /\ pc'[w] = "done"
                         /\ resp'[w] = [status |-> 404, body |-> "not_found"]
                         /\ waitlist' = waitlist
            /\ (StepOf(w, "cancel") /\ pc[w] = "cw_delete")
               => /\ pc'[w] = "done" /\ resp'[w].status = 200
                  /\ waitlist' = {e \in waitlist : e.id # req[w].arg}
       /\ waitlist \ waitlist' # {}
            => \E w \in Workers :
                /\ StepOf(w, "cancel")
                /\ \A e \in waitlist \ waitlist' : e.id = req[w].arg /\ e.user = req[w].user
      ]_vars

\* a member asked to cancel another member's row: not-found, and the row is there
C15_Witness ==
    \E w \in Workers :
        /\ Finished(w, "cancel")
        /\ resp[w] = [status |-> 404, body |-> "not_found"]
        /\ \E e \in waitlist : e.id = req[w].arg /\ e.user # req[w].user

\* no other request than w's reads or writes a book's copies_available
OnlyCopiesWriter(w) ==
    \A v \in Workers \ {w} : req[v].kind \notin {"checkout", "return"}

\* C16: a Return that found its open loan ends with the success response (HTTP
\* 200) and the loan's return_date set, whether the waitlist mail was sent, failed
\* or was not attempted; and, no other request changing copies, with the book's
\* copies_available 1 above what it was.
C16_ReturnSurvivesMailFailure ==
    \A w \in Workers :
        (Finished(w, "return") /\ resp[w].status # 404) =>
            LET tid == req[w].arg
                b   == transactions[tid].book
            IN /\ resp[w] = [status |-> 200, body |-> "returned"]
               /\ transactions[tid].return_date # NULL
               /\ txLock[tid] # w /\ bookLock[b] # w
               /\ OnlyCopiesWriter(w) => copies_available[b] = InitialCopies(b) + 1

\* a Return whose waitlist mail failed ended with 200, the loan returned and the
\* copy back
C16_Witness ==
    \E w \in Workers :
        /\ Finished(w, "return") /\ resp[w].status = 200
        /\ OnlyCopiesWriter(w)
        /\ transactions[req[w].arg].return_date # NULL
        /\ copies_available[transactions[req[w].arg].book]
              = InitialCopies(transactions[req[w].arg].book) + 1
        /\ Len(outbox) = 1
        /\ outbox[1].kind = "available" /\ ~outbox[1].delivered
        /\ outbox[1].book = transactions[req[w].arg].book

\* the loans that are open now and were due before the time of w's scan
DueSet(w) == {tid \in TxIds : OnLoan(tid) /\ transactions[tid].due_date < req[w].arg}
Reminders(tid) == {i \in 1..Len(outbox) : outbox[i].kind = "overdue" /\ outbox[i].tx = tid}
ScanWorkers == {w \in Workers : req[w].kind = "scan"}

\* every scan has ended and no loan it found has been returned since it started
ScansSettled ==
    \A w \in ScanWorkers : pc[w] = "done" /\ req[w].loans = Cardinality(DueSet(w))

\* a scan starts from exactly the open loans due before its time, and no step of a
\* scan writes to the Book, Transaction, Waitlist or User tables
ScanSteps ==
    \A w \in Workers :
        /\ (pc[w] = "idle" /\ req'[w].kind = "scan")
           => /\ req'[w].arg = now
              /\ {local'[w].todo[i] : i \in 1..Len(local'[w].todo)}
                    = {tid \in TxIds : OnLoan(tid) /\ transactions[tid].due_date < now}
              /\ Len(local'[w].todo) = Cardinality({tid \in TxIds :
                    OnLoan(tid) /\ transactions[tid].due_date < now})
        /\ (req'[w].kind = "scan" /\ (pc'[w] # pc[w] \/ local'[w] # local[w]))
           => UNCHANGED <<copies_available, transactions, waitlist, nextWaitlistId,
                          is_active_member>>

\* C17: every invocation of the overdue scan sends exactly one reminder
\* for each loan that is open and due before the scan time and none for any other
\* loan, and changes no Book, Transaction or Waitlist state, so that a further
\* invocation sends the same reminders again.
C17_ScanSendsOnePerOverdueLoan ==
    /\ [](ScansSettled =>
            \A tid \in TxIds :
                Cardinality(Reminders(tid)) = Cardinality({w \in ScanWorkers : tid \in DueSet(w)}))
    /\ [][ScanSteps]_vars

\* the scenario of C18: the only two requests are a JoinWaitlist(member, book) and
\* a successful Return of a loan of that book, which had copies_available = 0 and
\* no waitlist row
C18_Scenario(w1, w2) ==
    /\ w1 # w2 /\ Finished(w1, "join") /\ Finished(w2, "return")
    /\ \A w \in Workers \ {w1, w2} : pc[w] = "idle"
    /\ resp[w2].status = 200
    /\ req[w1].arg = transactions[req[w2].arg].book
    /\ InitialCopies(req[w1].arg) = 0
    /\ EntriesOfBook(EarlierEntries, req[w1].arg) = {}

\* C18: a JoinWaitlist(member, book) and a Return of a loan of that book (book at
\* copies_available = 0, no waitlist row) are serialized: in the end either the
\* join got the advisory and created no row, or its row was seen by the Return and
\* that member was sent the notification; never a new row for a book that has
\* copies_available > 0 with no notification sent to its member.
C18_JoinAndReturnSerialized ==
    \A w1, w2 \in Workers :
        C18_Scenario(w1, w2) =>
            LET m == req[w1].user
                b == req[w1].arg
            IN \/ /\ resp[w1] = [status |-> 200, body |-> "warning_available"]
                  /\ EntriesOfPair(waitlist, m, b) = {}
               \/ /\ resp[w1].status = 201
                  /\ Cardinality(EntriesOfPair(waitlist, m, b)) = 1
                  /\ \E i \in MailsFor(outbox, b) : outbox[i].to = m
====
